---- MODULE Spec2Model ----
(***************************************************************************)
(* The coffee-shop drinks API (backend/src/api.py): five Flask routes over *)
(* one table of drinks, four of them behind requires_auth, and the         *)
(* registered error handlers.                                              *)
(*                                                                         *)
(* A request is handled by one action per route; the action is the whole   *)
(* decorated view function: guard, validation, repository call, response   *)
(* or error handler.  send_response ends the request, so that requests are *)
(* handled one at a time.                                                  *)
(***************************************************************************)
EXTENDS Integers, Sequences, FiniteSets, TLC

VARIABLES table, nextId, req, resp, submitted

vars == <<table, nextId, req, resp, submitted>>

\* Bound: the number of ids the storage hands out in one run.
MaxId == 2

(***************************************************************************)
(* JSON values.  Every value is a record of the same shape, tagged by t:   *)
(* null, str (s), num (n), obj (o: key -> value), list (l: sequence).      *)
(* Python None is JSON null.                                               *)
(***************************************************************************)
NoMembers == [k \in {} |-> 0]

JNull == [t |-> "null", s |-> "", n |-> 0, o |-> NoMembers, l |-> <<>>]

JStr(x) == [t |-> "str", s |-> x, n |-> 0, o |-> NoMembers, l |-> <<>>]

JNum(k) == [t |-> "num", s |-> "", n |-> k, o |-> NoMembers, l |-> <<>>]

JObj(f) == [t |-> "obj", s |-> "", n |-> 0, o |-> f, l |-> <<>>]

JList(q) == [t |-> "list", s |-> "", n |-> 0, o |-> NoMembers, l |-> q]

\* Python truthiness of a JSON value, as `not v` tests it.
Truthy(v) ==
    CASE v.t = "null" -> FALSE
      [] v.t = "str"  -> v.s # ""
      [] v.t = "num"  -> v.n # 0
      [] v.t = "obj"  -> DOMAIN v.o # {}
      [] v.t = "list" -> v.l # <<>>

\* dict.get(field): the value, or None when the key is absent.
dict_get(body, field) == IF field \in DOMAIN body THEN body[field] ELSE JNull

(***************************************************************************)
(* json.dumps / json.loads.  The text is a sequence of tokens: punctuation *)
(* and scalar tokens.  An object's members are written in the order of     *)
(* KeyOrder (a dict compares equal whatever the order of its keys).        *)
(***************************************************************************)
KeyOrder == <<"name", "color", "parts">>

Punct(c) == [t |-> "punct", s |-> c, n |-> 0]

Scalar(v) == [t |-> v.t, s |-> v.s, n |-> v.n]

RECURSIVE json_dumps(_), DumpMembers(_, _), DumpElements(_, _)

DumpMembers(f, i) ==
    IF i > Len(KeyOrder) THEN <<>>
    ELSE IF KeyOrder[i] \notin DOMAIN f THEN DumpMembers(f, i + 1)
    ELSE LET rest == DumpMembers(f, i + 1)
             item == <<[t |-> "str", s |-> KeyOrder[i], n |-> 0], Punct(":")>>
                     \o json_dumps(f[KeyOrder[i]])
         IN  IF rest = <<>> THEN item ELSE item \o <<Punct(",")>> \o rest

DumpElements(q, i) ==
    IF i > Len(q) THEN <<>>
    ELSE IF i = Len(q) THEN json_dumps(q[i])
    ELSE json_dumps(q[i]) \o <<Punct(",")>> \o DumpElements(q, i + 1)

json_dumps(v) ==
    CASE v.t = "obj"  -> <<Punct("{")>> \o DumpMembers(v.o, 1) \o <<Punct("}")>>
      [] v.t = "list" -> <<Punct("[")>> \o DumpElements(v.l, 1) \o <<Punct("]")>>
      [] OTHER        -> <<Scalar(v)>>

RECURSIVE ParseValue(_, _), ParseMembers(_, _, _), ParseElements(_, _, _)

\* Parses the members of an object from position i on; acc holds the
\* members read so far.
ParseMembers(toks, i, acc) ==
    LET k == toks[i].s
        r == ParseValue(toks, i + 2)
        acc2 == [x \in DOMAIN acc \cup {k} |-> IF x = k THEN r.val ELSE acc[x]]
    IN  IF toks[r.next] = Punct(",")
        THEN ParseMembers(toks, r.next + 1, acc2)
        ELSE [val |-> JObj(acc2), next |-> r.next + 1]

\* Parses the elements of a list from position i on.
ParseElements(toks, i, acc) ==
    LET r == ParseValue(toks, i)
        acc2 == Append(acc, r.val)
    IN  IF toks[r.next] = Punct(",")
        THEN ParseElements(toks, r.next + 1, acc2)
        ELSE [val |-> JList(acc2), next |-> r.next + 1]

ParseValue(toks, i) ==
    IF toks[i] = Punct("{")
    THEN IF toks[i + 1] = Punct("}")
         THEN [val |-> JObj(NoMembers), next |-> i + 2]
         ELSE ParseMembers(toks, i + 1, NoMembers)
    ELSE IF toks[i] = Punct("[")
    THEN IF toks[i + 1] = Punct("]")
         THEN [val |-> JList(<<>>), next |-> i + 2]
         ELSE ParseElements(toks, i + 1, <<>>)
    ELSE [val |-> CASE toks[i].t = "str" -> JStr(toks[i].s)
                    [] toks[i].t = "num" -> JNum(toks[i].n)
                    [] OTHER             -> JNull,
          next |-> i + 1]

json_loads(text) == ParseValue(text, 1).val

(***************************************************************************)
(* Responses and the registered error handlers.                            *)
(***************************************************************************)
Response(status, success, error, message, drinks, delete) ==
    [status |-> status, success |-> success, error |-> error,
     message |-> message, drinks |-> drinks, delete |-> delete]

\* jsonify({'success': True, 'drinks': drinks}), status 200
jsonify_drinks(drinks) == Response(200, TRUE, 0, "", drinks, 0)

\* jsonify({'success': True, 'delete': drink_id}), status 200
jsonify_delete(drink_id) == Response(200, TRUE, 0, "", <<>>, drink_id)

unprocessable == Response(422, FALSE, 422, "unprocessable", <<>>, 0)

not_found == Response(404, FALSE, 404, "resource not found", <<>>, 0)

bad_request(description) ==
    Response(400, FALSE, 400,
             IF description # "" THEN description ELSE "bad request", <<>>, 0)

\* Variant of forbidden: answers with the status of unauthorized.
forbidden_as_401(description) ==
    Response(401, FALSE, 401,
             IF description # "" THEN description ELSE "forbidden", <<>>, 0)

forbidden(description) ==
    Response(403, FALSE, 403,
             IF description # "" THEN description ELSE "forbidden", <<>>, 0)

unauthorized(description) ==
    Response(401, FALSE, 401,
             IF description # "" THEN description ELSE "unauthorized", <<>>, 0)

server_error == Response(500, FALSE, 500, "internal server error", <<>>, 0)

\* abort(code, description): the handler registered for the code answers.
\* An exception that is not an HTTPException reaches the 500 handler.
abort(code, description) ==
    CASE code = 400 -> bad_request(description)
      [] code = 401 -> unauthorized(description)
      [] code = 403 -> forbidden(description)
      [] code = 404 -> not_found
      [] code = 422 -> unprocessable
      [] OTHER      -> server_error

(***************************************************************************)
(* The drinks table (database/models.py).  A row holds the title and the   *)
(* recipe text; the id is the key.  The title column is unique; ids are    *)
(* handed out in increasing order and never reused.                        *)
(***************************************************************************)
Drink(title, recipe) == [title |-> title, recipe |-> recipe]

\* The error a statement raises ("" when it raises nothing) and the table
\* and id counter it leaves.
Stored(raised, tbl, nid) == [raised |-> raised, table |-> tbl, nextId |-> nid]

Drink_insert(tbl, nid, drink) ==
    IF \E i \in DOMAIN tbl : tbl[i].title = drink.title
    THEN Stored("IntegrityError", tbl, nid)
    ELSE Stored("", [i \in DOMAIN tbl \cup {nid} |->
                        IF i = nid THEN drink ELSE tbl[i]], nid + 1)

Drink_update(tbl, nid, drink_id, drink) ==
    IF \E i \in DOMAIN tbl \ {drink_id} : tbl[i].title = drink.title
    THEN Stored("IntegrityError", tbl, nid)
    ELSE Stored("", [tbl EXCEPT ![drink_id] = drink], nid)

Drink_delete(tbl, nid, drink_id) ==
    Stored("", [i \in DOMAIN tbl \ {drink_id} |-> tbl[i]], nid)

RECURSIVE Ascending(_)

\* Drink.query.order_by(Drink.id).all(): the ids in ascending order.
Ascending(S) ==
    IF S = {} THEN <<>>
    ELSE LET m == CHOOSE x \in S : \A y \in S : x <= y
         IN  <<m>> \o Ascending(S \ {m})

\* long: the full detail, the recipe text deserialized.
Drink_long(id, drink) ==
    [id |-> id, title |-> drink.title, recipe |-> json_loads(drink.recipe)]

\* An ingredient the projections can read: an object with the three fields.
IsIngredient(v) ==
    v.t = "obj" /\ {"name", "color", "parts"} \subseteq DOMAIN v.o

\* short reads each ingredient of the deserialized sequence; it raises when
\* the deserialized recipe is not a sequence of ingredients.
ShortRaises(drink) ==
    LET r == json_loads(drink.recipe)
    IN  ~(r.t = "list" /\ \A i \in 1..Len(r.l) : IsIngredient(r.l[i]))

\* short: parts replaced by the placeholder "pending".
Drink_short(id, drink) ==
    LET r == json_loads(drink.recipe)
    IN  [id |-> id, title |-> drink.title,
         recipe |-> JList([i \in 1..Len(r.l) |->
                       JObj([k \in {"name", "color", "parts"} |->
                               IF k = "parts" THEN JStr("pending")
                               ELSE r.l[i].o[k]])])]

(***************************************************************************)
(* The authorization guard (auth/auth.py).  The result is 0 when the       *)
(* wrapped view runs, and the status of the AuthError otherwise.           *)
(***************************************************************************)
requires_auth(permission, auth) ==
    CASE auth.header = "missing"         -> 401
      [] auth.header = "wrong_structure" -> 400
      [] auth.header = "bad_token"       -> 401
      [] permission \notin auth.permissions -> 403
      [] OTHER -> 0

(***************************************************************************)
(* Request validation, as the two views write it.  The result is the code  *)
(* the view aborts with (0: it goes on, 500: a Python exception that is    *)
(* not an HTTPException) and the description given to abort.               *)
(***************************************************************************)
Checked(code, description) == [code |-> code, description |-> description]

required_recipe_fields == {"name", "color", "parts"}

\* The characters of a string; the strings of the model have at most one.
Chars(s) == IF s = "" THEN {} ELSE {s}

\* set.difference(v): v is iterated, and each element hashed.  A number or
\* None is not iterable, a dict or list element is not hashable.
set_difference(required, v) ==
    CASE v.t = "obj"  -> [raised |-> FALSE, missing |-> required \ DOMAIN v.o]
      [] v.t = "str"  -> [raised |-> FALSE, missing |-> required \ Chars(v.s)]
      [] v.t = "list" ->
            [raised  |-> \E i \in 1..Len(v.l) : v.l[i].t \in {"obj", "list"},
             missing |-> required \ {v.l[i].s : i \in {j \in 1..Len(v.l) : v.l[j].t = "str"}}]
      [] OTHER        -> [raised |-> TRUE, missing |-> {}]

\* The long-format check both views share: lines 84-90 and 129-135.
recipe_check(recipe) ==
    LET d == set_difference(required_recipe_fields, recipe)
    IN  IF d.raised THEN Checked(500, "")
        ELSE IF d.missing # {} THEN Checked(400, "Missing required recipe field(s)")
        ELSE IF recipe.t # "obj" THEN Checked(500, "")
        ELSE IF \E k \in DOMAIN recipe.o : ~Truthy(recipe.o[k])
        THEN Checked(400, "Missing required recipe field")
        ELSE Checked(0, "")

\* Variant of create_drink_check: rejects only None (`is None`), not every
\* falsy value.
create_drink_check_none(body) ==
    IF dict_get(body, "title").t = "null"
    THEN Checked(400, "Missing required field: title")
    ELSE IF dict_get(body, "recipe").t = "null"
    THEN Checked(400, "Missing required field: recipe")
    ELSE recipe_check(dict_get(body, "recipe"))

create_drink_check(body) ==
    IF ~Truthy(dict_get(body, "title"))
    THEN Checked(400, "Missing required field: title")
    ELSE IF ~Truthy(dict_get(body, "recipe"))
    THEN Checked(400, "Missing required field: recipe")
    ELSE recipe_check(dict_get(body, "recipe"))

update_drink_check(body) ==
    IF "title" \in DOMAIN body /\ ~Truthy(dict_get(body, "title"))
    THEN Checked(400, "A value is required for field: title")
    ELSE IF "recipe" \in DOMAIN body /\ ~Truthy(dict_get(body, "recipe"))
    THEN Checked(400, "A value is required for field: recipe")
    ELSE IF "recipe" \in DOMAIN body THEN recipe_check(body["recipe"])
    ELSE Checked(0, "")

(***************************************************************************)
(* The try blocks of the views.  The result is the response and the table  *)
(* and id counter the view leaves.                                         *)
(***************************************************************************)
Outcome(response, tbl, nid) == [resp |-> response, table |-> tbl, nextId |-> nid]

\* Variant of create_drink_try: the recipe is stored as submitted, not
\* wrapped into a list.
create_drink_try_unwrapped(body, tbl, nid) ==
    LET drink == Drink(body["title"], json_dumps(body["recipe"]))
        ins   == Drink_insert(tbl, nid, drink)
    IN  IF ins.raised = "IntegrityError"
        THEN Outcome(abort(400, "Drink may already exist"), tbl, nid)
        ELSE IF ins.raised # ""
        THEN Outcome(abort(422, ""), tbl, nid)
        ELSE Outcome(jsonify_drinks(<<Drink_long(nid, ins.table[nid])>>),
                     ins.table, ins.nextId)

\* Variant of create_drink_try: IntegrityError is handled like any other
\* exception.
create_drink_try_422(body, tbl, nid) ==
    LET drink == Drink(body["title"], json_dumps(JList(<<body["recipe"]>>)))
        ins   == Drink_insert(tbl, nid, drink)
    IN  IF ins.raised # ""
        THEN Outcome(abort(422, ""), tbl, nid)
        ELSE Outcome(jsonify_drinks(<<Drink_long(nid, ins.table[nid])>>),
                     ins.table, ins.nextId)

create_drink_try(body, tbl, nid) ==
    LET drink == Drink(body["title"], json_dumps(JList(<<body["recipe"]>>)))
        ins   == Drink_insert(tbl, nid, drink)
    IN  IF ins.raised = "IntegrityError"
        THEN Outcome(abort(400, "Drink may already exist"), tbl, nid)
        ELSE IF ins.raised # ""
        THEN Outcome(abort(422, ""), tbl, nid)
        ELSE Outcome(jsonify_drinks(<<Drink_long(nid, ins.table[nid])>>),
                     ins.table, ins.nextId)

\* Variant of update_drink_try: the title is assigned from body.get('title')
\* whether or not the body has one.
update_drink_try_get(body, drink_id, tbl, nid) ==
    LET tried ==
            IF drink_id \notin DOMAIN tbl
            THEN Stored("NotFound", tbl, nid)
            ELSE LET old == tbl[drink_id]
                 IN  Drink_update(tbl, nid, drink_id,
                         Drink(dict_get(body, "title"),
                               IF "recipe" \in DOMAIN body
                               THEN json_dumps(body["recipe"]) ELSE old.recipe))
    IN  IF tried.raised # ""
        THEN Outcome(abort(422, ""), tbl, nid)
        ELSE Outcome(jsonify_drinks(<<Drink_long(drink_id, tried.table[drink_id])>>),
                     tried.table, tried.nextId)

\* abort(404) is raised inside the try block: NotFound is an Exception, so
\* `except Exception` catches it like any other and aborts with 422.
update_drink_try(body, drink_id, tbl, nid) ==
    LET tried ==
            IF drink_id \notin DOMAIN tbl
            THEN Stored("NotFound", tbl, nid)
            ELSE LET old == tbl[drink_id]
                 IN  Drink_update(tbl, nid, drink_id,
                         Drink(IF "title" \in DOMAIN body
                               THEN body["title"] ELSE old.title,
                               IF "recipe" \in DOMAIN body
                               THEN json_dumps(body["recipe"]) ELSE old.recipe))
    IN  IF tried.raised # ""
        THEN Outcome(abort(422, ""), tbl, nid)
        ELSE Outcome(jsonify_drinks(<<Drink_long(drink_id, tried.table[drink_id])>>),
                     tried.table, tried.nextId)

\* Variant of delete_drink_try: deleting an id that is not stored succeeds.
delete_drink_try_lenient(drink_id, tbl, nid) ==
    LET tried == Drink_delete(tbl, nid, drink_id)
    IN  IF tried.raised # ""
        THEN Outcome(abort(422, ""), tbl, nid)
        ELSE Outcome(jsonify_delete(drink_id), tried.table, tried.nextId)

\* abort(404) is raised before the try block and reaches its handler.
delete_drink_try(drink_id, tbl, nid) ==
    IF drink_id \notin DOMAIN tbl
    THEN Outcome(abort(404, ""), tbl, nid)
    ELSE LET tried == Drink_delete(tbl, nid, drink_id)
         IN  IF tried.raised # ""
             THEN Outcome(abort(422, ""), tbl, nid)
             ELSE Outcome(jsonify_delete(drink_id), tried.table, tried.nextId)

\* The listing both GET views share: lines 31-40 and 53-62.
list_drinks(tbl, long) ==
    LET recs == Ascending(DOMAIN tbl)
    IN  IF ~long /\ \E i \in DOMAIN tbl : ShortRaises(tbl[i])
        THEN abort(500, "")
        ELSE IF Len(recs) = 0 THEN abort(404, "")
        ELSE jsonify_drinks([i \in 1..Len(recs) |->
                 IF long THEN Drink_long(recs[i], tbl[recs[i]])
                 ELSE Drink_short(recs[i], tbl[recs[i]])])

(***************************************************************************)
(* The views, and the guard around them.                                   *)
(***************************************************************************)
get_drinks(tbl, nid) == Outcome(list_drinks(tbl, FALSE), tbl, nid)

get_drinks_detail(tbl, nid) == Outcome(list_drinks(tbl, TRUE), tbl, nid)

create_drink(body, tbl, nid) ==
    LET c == create_drink_check(body)
    IN  IF c.code # 0 THEN Outcome(abort(c.code, c.description), tbl, nid)
        ELSE create_drink_try(body, tbl, nid)

\* Variant of update_drink: the drink is looked up before the body is
\* checked.
update_drink_lookup_first(body, drink_id, tbl, nid) ==
    LET c == update_drink_check(body)
    IN  IF drink_id \notin DOMAIN tbl THEN Outcome(abort(422, ""), tbl, nid)
        ELSE IF c.code # 0 THEN Outcome(abort(c.code, c.description), tbl, nid)
        ELSE update_drink_try(body, drink_id, tbl, nid)

update_drink(body, drink_id, tbl, nid) ==
    LET c == update_drink_check(body)
    IN  IF c.code # 0 THEN Outcome(abort(c.code, c.description), tbl, nid)
        ELSE update_drink_try(body, drink_id, tbl, nid)

delete_drink(drink_id, tbl, nid) == delete_drink_try(drink_id, tbl, nid)

\* @requires_auth(permission) around a view: the view runs only when the
\* guard lets the request through.
guarded(permission, auth, view, tbl, nid) ==
    LET code == requires_auth(permission, auth)
    IN  IF code # 0 THEN Outcome(abort(code, ""), tbl, nid) ELSE view

(***************************************************************************)
(* The requests of the model.                                              *)
(***************************************************************************)
Permissions == {"get:drinks-detail", "post:drinks", "patch:drinks", "delete:drinks"}

Auth(header, permissions) == [header |-> header, permissions |-> permissions]

Auths ==
    {Auth("missing", {}), Auth("wrong_structure", {}), Auth("bad_token", {})}
    \cup {Auth("verified", P) : P \in {{}, {"get:drinks-detail"}, Permissions}}

Titles == {JNull, JStr(""), JNum(0), JStr("a"), JStr("b")}

IngredientValues(k) ==
    CASE k = "name"  -> {JStr(""), JStr("w")}
      [] k = "color" -> {JStr("c")}
      [] k = "parts" -> {JNum(0), JNum(1), JNum(2)}

\* Objects with a name, with or without a color, with parts.
Ingredients ==
    UNION {{f \in [S -> UNION {IngredientValues(k) : k \in S}] :
               \A k \in S : f[k] \in IngredientValues(k)} :
           S \in {{"name", "parts"}, {"name", "color", "parts"}}}

AnIngredient == [k \in {"name", "color", "parts"} |->
                    CASE k = "name" -> JStr("w") [] k = "color" -> JStr("c")
                      [] k = "parts" -> JNum(1)]

Recipes ==
    {JObj(f) : f \in Ingredients}
    \cup {JNull, JObj(NoMembers), JList(<<>>), JStr(""), JNum(0),
          JNum(5), JStr("x"),
          JList(<<JObj(AnIngredient)>>),
          JList(<<JStr("name")>>),
          JList(<<JStr("name"), JStr("color"), JStr("parts")>>)}

Bodies ==
    UNION {{b \in [S -> Titles \cup Recipes] :
               /\ "title" \in S => b["title"] \in Titles
               /\ "recipe" \in S => b["recipe"] \in Recipes} :
           S \in SUBSET {"title", "recipe"}}

Request(endpoint, auth, body, drink_id) ==
    [endpoint |-> endpoint, auth |-> auth, body |-> body, drink_id |-> drink_id]

NoRequest == Request("none", Auth("missing", {}), NoMembers, 0)

NoResponse == Response(0, FALSE, 0, "", <<>>, 0)

\* The table starts empty: every drink of the model is created by a POST.
Init ==
    /\ table = [i \in {} |-> Drink(JNull, <<>>)]
    /\ nextId = 1
    /\ req = NoRequest
    /\ resp = NoResponse
    /\ submitted = [i \in {} |-> NoMembers]

\* The rows a successful POST wrote and no PATCH or DELETE touched since,
\* with the payload that was submitted.
Forget(drink_id) == [i \in DOMAIN submitted \ {drink_id} |-> submitted[i]]

Idle == req.endpoint = "none"

Handle(request, out) ==
    /\ req' = request
    /\ resp' = out.resp
    /\ table' = out.table
    /\ nextId' = out.nextId

GET_drinks ==
    /\ Idle
    /\ \E auth \in Auths :
           /\ Handle(Request("get_drinks", auth, NoMembers, 0),
                     get_drinks(table, nextId))
           /\ UNCHANGED submitted

GET_drinks_detail ==
    /\ Idle
    /\ \E auth \in Auths :
           /\ Handle(Request("get_drinks_detail", auth, NoMembers, 0),
                     guarded("get:drinks-detail", auth,
                             get_drinks_detail(table, nextId), table, nextId))
           /\ UNCHANGED submitted

POST_drinks ==
    /\ Idle
    /\ nextId <= MaxId
    /\ \E auth \in Auths, body \in Bodies :
           /\ Handle(Request("create_drink", auth, body, 0),
                     guarded("post:drinks", auth,
                             create_drink(body, table, nextId), table, nextId))
           /\ submitted' =
                 IF resp'.status = 200
                 THEN [i \in DOMAIN submitted \cup {nextId} |->
                          IF i = nextId THEN body ELSE submitted[i]]
                 ELSE submitted

PATCH_drinks ==
    /\ Idle
    /\ \E auth \in Auths, body \in Bodies, drink_id \in 1..MaxId :
           /\ Handle(Request("update_drink", auth, body, drink_id),
                     guarded("patch:drinks", auth,
                             update_drink(body, drink_id, table, nextId),
                             table, nextId))
           /\ submitted' = IF resp'.status = 200 THEN Forget(drink_id) ELSE submitted

DELETE_drinks ==
    /\ Idle
    /\ \E auth \in Auths, drink_id \in 1..MaxId :
           /\ Handle(Request("delete_drink", auth, NoMembers, drink_id),
                     guarded("delete:drinks", auth,
                             delete_drink(drink_id, table, nextId), table, nextId))
           /\ submitted' = IF resp'.status = 200 THEN Forget(drink_id) ELSE submitted

\* The response is sent and the request is over.
send_response ==
    /\ req.endpoint # "none"
    /\ req' = NoRequest
    /\ resp' = NoResponse
    /\ UNCHANGED <<table, nextId, submitted>>

Next ==
    \/ GET_drinks
    \/ GET_drinks_detail
    \/ POST_drinks
    \/ PATCH_drinks
    \/ DELETE_drinks
    \/ send_response

Spec == Init /\ [][Next]_vars

(***************************************************************************)
(* Vocabulary of the properties.                                           *)
(***************************************************************************)
Protected == {"get_drinks_detail", "create_drink", "update_drink", "delete_drink"}

\* The scope each protected route names in its decorator.
RequiredScope(endpoint) ==
    CASE endpoint = "get_drinks_detail" -> "get:drinks-detail"
      [] endpoint = "create_drink"      -> "post:drinks"
      [] endpoint = "update_drink"      -> "patch:drinks"
      [] endpoint = "delete_drink"      -> "delete:drinks"
      [] OTHER                          -> ""

\* The request carries a verified token that holds the route's scope.
Authorized(r) ==
    /\ r.endpoint \in Protected
    /\ r.auth.header = "verified"
    /\ RequiredScope(r.endpoint) \in r.auth.permissions

\* The request carries a verified token that lacks the route's scope.
LacksScope(r) ==
    /\ r.endpoint \in Protected
    /\ r.auth.header = "verified"
    /\ RequiredScope(r.endpoint) \notin r.auth.permissions

\* An ingredient object with name, color and parts, none of them falsy.
WellFormed(v) ==
    /\ v.t = "obj"
    /\ {"name", "color", "parts"} \subseteq DOMAIN v.o
    /\ \A k \in {"name", "color", "parts"} : Truthy(v.o[k])

\* A recipe object that lacks one of the three fields or holds a falsy one.
BadIngredient(v) ==
    /\ v.t = "obj"
    /\ \/ ~({"name", "color", "parts"} \subseteq DOMAIN v.o)
       \/ \E k \in DOMAIN v.o \cap {"name", "color", "parts"} : ~Truthy(v.o[k])

\* A create payload the validator accepts.
ValidCreate(body) ==
    /\ DOMAIN body = {"title", "recipe"}
    /\ body["title"].t = "str" /\ body["title"].s # ""
    /\ WellFormed(body["recipe"])

(***************************************************************************)
(* Properties.                                                             *)
(***************************************************************************)

\* C1: PATCH /drinks/{id} by a caller holding patch:drinks, with a body that
\* passes validation and an id that is not in the table, is answered with
\* status 404 and error 404.
C1_PatchUnknownIdIs404 ==
    ( /\ req.endpoint = "update_drink"
      /\ Authorized(req)
      /\ update_drink_check(req.body).code = 0
      /\ req.drink_id \notin DOMAIN table )
    => (resp.status = 404 /\ resp.error = 404)

\* C2: on every protected route, a request whose token verifies but lacks
\* the route's scope is answered with status 403 and error 403, whatever
\* the body and the table.
C2_MissingScopeIs403 ==
    LacksScope(req) => (resp.status = 403 /\ resp.error = 403 /\ ~resp.success)

\* C2 witness: a PATCH with an invalid body by a verified caller without
\* patch:drinks, while the table holds a drink, answered with 403.
C2_Witness ==
    /\ req.endpoint = "update_drink"
    /\ LacksScope(req)
    /\ update_drink_check(req.body).code = 400
    /\ DOMAIN table # {}
    /\ resp.status = 403

\* C3: every stored drink has a non-empty title and a recipe that is a
\* non-empty sequence of ingredient objects, each with non-empty name,
\* color and parts.
C3_StoredDrinksWellFormed ==
    \A i \in DOMAIN table :
        LET r == json_loads(table[i].recipe)
        IN  /\ Truthy(table[i].title)
            /\ r.t = "list"
            /\ Len(r.l) >= 1
            /\ \A j \in 1..Len(r.l) : WellFormed(r.l[j])

\* C4: round trip.  A successful POST /drinks returns the id of the new
\* drink, and as long as no PATCH or DELETE touched that drink, GET
\* /drinks-detail returns a long projection with that id whose title is the
\* submitted title and whose recipe is the one-element list holding the
\* submitted ingredient.
C4_RoundTrip ==
    /\ (req.endpoint = "create_drink" /\ resp.status = 200) =>
           /\ ValidCreate(req.body)
           /\ Len(resp.drinks) = 1
           /\ resp.drinks[1].id \in DOMAIN submitted
           /\ submitted[resp.drinks[1].id] = req.body
    /\ (req.endpoint = "get_drinks_detail" /\ Authorized(req)
            /\ DOMAIN submitted # {}) =>
           /\ resp.status = 200
           /\ \A id \in DOMAIN submitted :
                  \E k \in 1..Len(resp.drinks) :
                      /\ resp.drinks[k].id = id
                      /\ resp.drinks[k].title = submitted[id]["title"]
                      /\ resp.drinks[k].recipe = JList(<<submitted[id]["recipe"]>>)

\* C4 witness: GET /drinks-detail answered with two drinks, one as it was
\* posted and one changed by a PATCH since.
C4_Witness ==
    /\ req.endpoint = "get_drinks_detail"
    /\ resp.status = 200
    /\ Len(resp.drinks) = 2
    /\ Cardinality(DOMAIN submitted) = 1

\* C5: a POST /drinks with a valid body whose title is the title of a stored
\* drink is answered with 400, the table stays as it was, and it holds
\* exactly one row with that title.
C5_DuplicateTitleIs400 ==
    [][ ( /\ req'.endpoint = "create_drink"
          /\ Authorized(req')
          /\ ValidCreate(req'.body)
          /\ \E i \in DOMAIN table : table[i].title = req'.body["title"] )
        => ( /\ resp'.status = 400 /\ resp'.error = 400
             /\ table' = table
             /\ Cardinality({i \in DOMAIN table' :
                                table'[i].title = req'.body["title"]}) = 1 )
      ]_vars

\* C5 witness: a valid POST answered with 400 while a drink of that title is
\* stored.
C5_Witness ==
    /\ req.endpoint = "create_drink"
    /\ Authorized(req)
    /\ ValidCreate(req.body)
    /\ resp.status = 400
    /\ \E i \in DOMAIN table : table[i].title = req.body["title"]

\* C6: DELETE /drinks/{id} by a caller holding delete:drinks for an id that
\* is not in the table is answered with 404 and leaves the table as it was;
\* and an id that was handed out and is no longer in the table never comes
\* back, so that every DELETE repeated after a successful one is such a
\* request.
C6_DeleteUnknownIdIs404 ==
    [][ /\ ( /\ req'.endpoint = "delete_drink"
             /\ Authorized(req')
             /\ req'.drink_id \notin DOMAIN table )
           => (resp'.status = 404 /\ resp'.error = 404 /\ table' = table)
        /\ \A i \in 1..MaxId :
               (i < nextId /\ i \notin DOMAIN table) => i \notin DOMAIN table'
      ]_vars

\* C6 witness: a DELETE of an id that was handed out and deleted before,
\* answered with 404 while another drink is stored.
C6_Witness ==
    /\ req.endpoint = "delete_drink"
    /\ Authorized(req)
    /\ req.drink_id < nextId
    /\ req.drink_id \notin DOMAIN table
    /\ DOMAIN table # {}
    /\ resp.status = 404

\* C7: a successful PATCH /drinks/{id} changes only the fields its body
\* supplies: without title the title stays, without recipe the recipe stays,
\* a supplied title is the new title, and the drink keeps its id and every
\* other row stays as it was.
C7_PatchAppliesOnlySupplied ==
    [][ (req'.endpoint = "update_drink" /\ resp'.status = 200) =>
          LET id == req'.drink_id
              body == req'.body
          IN  /\ id \in DOMAIN table
              /\ DOMAIN table' = DOMAIN table
              /\ \A i \in DOMAIN table \ {id} : table'[i] = table[i]
              /\ "title" \notin DOMAIN body => table'[id].title = table[id].title
              /\ "title" \in DOMAIN body => table'[id].title = body["title"]
              /\ "recipe" \notin DOMAIN body => table'[id].recipe = table[id].recipe
              /\ Len(resp'.drinks) = 1
              /\ resp'.drinks[1].id = id
              /\ resp'.drinks[1].title = table'[id].title
      ]_vars

\* C7 witness: a successful PATCH without title, with a recipe, while
\* another drink is stored.
C7_Witness ==
    /\ req.endpoint = "update_drink"
    /\ resp.status = 200
    /\ DOMAIN req.body = {"recipe"}
    /\ Cardinality(DOMAIN table) = 2

\* The projections in the answer are those of the stored drinks, one each,
\* in ascending order of id.
OnePerDrinkAscending ==
    /\ Len(resp.drinks) = Cardinality(DOMAIN table)
    /\ {resp.drinks[k].id : k \in 1..Len(resp.drinks)} = DOMAIN table
    /\ \A k \in 1..(Len(resp.drinks) - 1) :
           resp.drinks[k].id < resp.drinks[k + 1].id
    /\ \A k \in 1..Len(resp.drinks) :
           resp.drinks[k].title = table[resp.drinks[k].id].title

\* C8: GET /drinks, and GET /drinks-detail by a caller holding
\* get:drinks-detail, answer 404 exactly when the table is empty, and
\* otherwise 200 with one projection per stored drink in ascending id order.
C8_ListingIs404IffEmpty ==
    (req.endpoint = "get_drinks" \/ (req.endpoint = "get_drinks_detail" /\ Authorized(req)))
    => /\ DOMAIN table = {} => resp.status = 404
       /\ DOMAIN table # {} => (resp.status = 200 /\ OnePerDrinkAscending)

\* The status the guard answers with when it stops a protected request.
GuardStatus(r) ==
    CASE r.auth.header \in {"missing", "bad_token"} -> 401
      [] r.auth.header = "wrong_structure"          -> 400
      [] OTHER                                      -> 403

\* The result of the validator of the request's route (none for the routes
\* without a body).
BodyCheck(r) ==
    CASE r.endpoint = "create_drink" -> create_drink_check(r.body)
      [] r.endpoint = "update_drink" -> update_drink_check(r.body)
      [] OTHER                       -> Checked(0, "")

\* C9: a protected request passes the guard, then the validator, then the
\* repository, and the first stage that fails decides the answer: a request
\* the guard or the validator stops gets that stage's status, carries no data
\* of the table and leaves the table as it was.  So a PATCH with an invalid
\* body for an unknown id gets 400, and a request without a valid token or
\* without the scope gets 401 or 403 even when its body is invalid.
C9_FirstFailingStageDecides ==
    [][ req'.endpoint \in Protected =>
          /\ ~Authorized(req') =>
                 /\ resp'.status = GuardStatus(req')
                 /\ resp'.error = GuardStatus(req')
          /\ (Authorized(req') /\ BodyCheck(req').code # 0) =>
                 /\ resp'.status = BodyCheck(req').code
                 /\ resp'.message = abort(BodyCheck(req').code,
                                          BodyCheck(req').description).message
          /\ (~Authorized(req') \/ BodyCheck(req').code # 0) =>
                 /\ resp'.drinks = <<>> /\ resp'.delete = 0
                 /\ table' = table /\ nextId' = nextId
          /\ ( /\ req'.endpoint = "update_drink" /\ Authorized(req')
               /\ BodyCheck(req').code = 400
               /\ req'.drink_id \notin DOMAIN table ) => resp'.status = 400
          /\ ( /\ BodyCheck(req').code = 400
               /\ \/ LacksScope(req')
                  \/ req'.auth.header \in {"missing", "bad_token"} )
             => resp'.status \in {401, 403}
      ]_vars

\* C9 witness: a PATCH by a caller holding patch:drinks, with an invalid
\* body, for an id that is not in the table while another drink is stored,
\* answered with 400.
C9_Witness ==
    /\ req.endpoint = "update_drink"
    /\ Authorized(req)
    /\ update_drink_check(req.body).code = 400
    /\ req.drink_id \notin DOMAIN table
    /\ DOMAIN table # {}
    /\ resp.status = 400

\* C10: falsy values are rejected like missing ones.  From a caller holding
\* the scope, a POST whose title or recipe is missing or falsy, a PATCH whose
\* title or recipe is present but falsy, and either request whose recipe
\* object lacks name, color or parts or holds a falsy value for one of them,
\* is answered with 400 and leaves the table as it was.
C10_FalsyRejectedLikeMissing ==
    [][ ( /\ Authorized(req')
          /\ \/ /\ req'.endpoint = "create_drink"
                /\ \/ ~Truthy(dict_get(req'.body, "title"))
                   \/ ~Truthy(dict_get(req'.body, "recipe"))
                   \/ BadIngredient(dict_get(req'.body, "recipe"))
             \/ /\ req'.endpoint = "update_drink"
                /\ \/ "title" \in DOMAIN req'.body /\ ~Truthy(req'.body["title"])
                   \/ "recipe" \in DOMAIN req'.body /\ ~Truthy(req'.body["recipe"])
                   \/ "recipe" \in DOMAIN req'.body /\ BadIngredient(req'.body["recipe"]) )
        => (resp'.status = 400 /\ resp'.error = 400 /\ table' = table)
      ]_vars

\* C10 witness: a PATCH of a stored drink whose recipe has parts = 0 and
\* whose title is fine, answered with 400.
C10_Witness ==
    /\ req.endpoint = "update_drink"
    /\ Authorized(req)
    /\ req.drink_id \in DOMAIN table
    /\ DOMAIN req.body = {"title", "recipe"}
    /\ Truthy(req.body["title"])
    /\ req.body["recipe"].t = "obj"
    /\ DOMAIN req.body["recipe"].o = {"name", "color", "parts"}
    /\ req.body["recipe"].o["parts"] = JNum(0)
    /\ Truthy(req.body["recipe"].o["name"])
    /\ resp.status = 400

====
